---- MODULE Spec2Model ----
(***************************************************************************)
(* Gathering membership and invitation subsystem (GatheringConcept).       *)
(*                                                                         *)
(* The store is two collections, gatherings and invites.  Every method of  *)
(* the concept is an async function: each awaited store operation          *)
(* (readOne, createOne, updateOne, deleteOne, popOne) is one atomic step,  *)
(* and the synchronous code between two awaits belongs to the step that    *)
(* precedes it.  Each call in flight occupies a slot of `calls`, which     *)
(* holds the call's arguments, its position and the values it has read.    *)
(***************************************************************************)
EXTENDS Integers, FiniteSets, Sequences, Bags, TLC

\* ------------------------------------------------------------------ bounds
MaxUsers == 2
MaxGatherings == 2
MaxTitles == 2
MaxCalls == 2
MaxUpdateKeys == 2
MaxBookmarks == 2

\* Users and titles are opaque values compared for equality (ObjectId
\* strings, exact-match title strings); they are numbered here.
Users == 1..MaxUsers
Titles == 1..MaxTitles
Descriptions == {"d"}
Posts == {"p"}

\* A scope fixes the inputs the callers of one specification use: the
\* gathering ids they address, the titles they create with, the keys their
\* update payloads carry and who issues invites.
AllGatherings == 1..MaxGatherings
OneGathering == {1}
OneTitle == {1}

VARIABLES
    gatherings, \* the gatherings collection: a set of GatheringDoc records
    invites,    \* the invites collection: a bag of InviteDoc records
    nextId,     \* the _id the store assigns to the next gathering
    calls,      \* slot -> the call occupying it
    bookmarks,  \* the bookmarks collection: a set of BookmarkDoc records
    nextBookmark \* the _id the store assigns to the next bookmark

vars == <<gatherings, invites, nextId, calls, bookmarks, nextBookmark>>

\* the bookmarks collection, which no Gathering operation touches
bookmarkVars == <<bookmarks, nextBookmark>>

\* ------------------------------------------------------------ documents
\* An optional field (canceled?, acceptors?, posts?) is <<>> when the
\* document has no such field and <<v>> when it has the value v.  Arrays of
\* ObjectId are kept as sets: the code only tests membership and length
\* after filtering.
Undefined == <<>>
Defined(v) == <<v>>
IsDefined(f) == f # <<>>
ValueOf(f) == f[1]

\* src hasItem: array.some(id => id.toString() === item.toString())
hasItem(item, array) == item \in array

\* JS truthiness of an optional boolean field
Truthy(f) == IsDefined(f) /\ ValueOf(f) = TRUE

GatheringDoc(id, creator, title, description) ==
    [_id |-> id, creator |-> creator, title |-> title, description |-> description,
     hosts |-> {creator}, canceled |-> Undefined, acceptors |-> Undefined,
     posts |-> Undefined]

InviteDoc(gathering, from, to, status) ==
    [gathering |-> gathering, from |-> from, to |-> to, status |-> status]

Statuses == {"pending", "declined", "accepted"}

\* ------------------------------------------------------------ the store
\* readOne(filter) on gatherings: the documents a filter on _id matches.
GatheringsById(id) == {d \in gatherings : d._id = id}
GatheringExists(id) == GatheringsById(id) # {}
TheGathering(id) == CHOOSE d \in gatherings : d._id = id

InviteSet == BagToSet(invites)
\* readOne({ gathering, to }) / readOne({ to, gathering })
InvitesFor(g, to) == {i \in InviteSet : i.gathering = g /\ i.to = to}
\* popOne({ from, to, gathering })
InvitesFromTo(from, to, g) == {i \in InvitesFor(g, to) : i.from = from}
InvitesOfGathering_PendingOnly(g) ==
    {i \in InviteSet : i.gathering = g /\ i.status = "pending"}

\* readOne({ gathering: _id })
InvitesOfGathering(g) == {i \in InviteSet : i.gathering = g}
\* number of stored invite documents of a pair whose status is in S
CountStatus(g, to, S) ==
    LET RECURSIVE Sum(_)
        Sum(T) == IF T = {} THEN 0
                  ELSE LET x == CHOOSE y \in T : TRUE
                       IN CopiesIn(x, invites) + Sum(T \ {x})
    IN Sum({i \in InvitesFor(g, to) : i.status \in S})
CountFor(g, to) == CountStatus(g, to, Statuses)

InsertInvite(bag, doc) == bag (+) SetToBag({doc})
RemoveInvite(bag, doc) == bag (-) SetToBag({doc})

\* updateOne({ _id }, update): a merge-style partial update of the matching
\* document; no document matching is not an error.
MergeDoc(d, update) ==
    [k \in DOMAIN d |-> IF k \in update.keys THEN update[k] ELSE d[k]]
UpdateOne_AllDocs(coll, id, update) == {MergeDoc(d, update) : d \in coll}

UpdateOne(coll, id, update) ==
    {IF d._id = id THEN MergeDoc(d, update) ELSE d : d \in coll}

\* ------------------------------------------------------------ call slots
IdleCall ==
    [op |-> "idle", pc |-> "idle", g |-> 0, u |-> 0,
     from |-> 0, title |-> 0, keys |-> {}, seen |-> <<>>, status |-> "",
     update |-> <<>>, res |-> "",
     pendCreate |-> "", pendAdd |-> "none"]

\* the value of an argument a call does not take
None == IdleCall.g

\* A slot is free when no call occupies it or the call in it has returned
\* and every write it dispatched has reached the store.
Finished(c) == c.pc \in {"idle", "done"} /\ c.pendCreate = "" /\ c.pendAdd = "none"
Slots == DOMAIN calls
Quiescent == \A s \in Slots : Finished(calls[s])

\* A call returns or throws: its result is kept, the invite it read and the
\* payload it was given are not.
Done(c, result) ==
    [c EXCEPT !.pc = "done", !.res = result, !.status = "", !.update = <<>>]

\* A new call may take slot s once the slot is free.
Free(s) == Finished(calls[s])
Begin(op, g, u) == [IdleCall EXCEPT !.op = op, !.g = g, !.u = u]
SetCall(s, c) == calls' = [calls EXCEPT ![s] = c]

\* -------------------------------------------------------------- create
isAvailableTitle_AnyCreator(creator, title) ==
    ~ \E d \in gatherings : d.title = title

\* src isAvailableTitle: readOne({ creator, title })
isAvailableTitle(creator, title) ==
    ~ \E d \in gatherings : d.creator = creator /\ d.title = title

\* create, first await: the title check.
Create(s, sc) ==
    /\ Free(s)
    /\ \E creator \in Users, title \in sc.titles :
          LET c == [Begin("create", None, creator) EXCEPT !.title = title]
          IN IF isAvailableTitle(creator, title)
             THEN /\ nextId \in sc.ids  \* the scope's supply of gathering ids
                  /\ \A t \in Slots : ~(calls[t].op = "create" /\ calls[t].pc = "createOne")
                  /\ SetCall(s, [c EXCEPT !.pc = "createOne"])
             ELSE SetCall(s, Done(c, "GatheringNameAlreadyInUse"))
    /\ UNCHANGED <<gatherings, invites, nextId, bookmarkVars>>

\* create, second await: createOne({ creator, title, description, hosts: [creator] });
\* the read-back of the new document changes nothing.
CreateInsert(s) ==
    /\ calls[s].op = "create" /\ calls[s].pc = "createOne"
    /\ \E description \in Descriptions :
          gatherings' = gatherings \cup
              {GatheringDoc(nextId, calls[s].u, calls[s].title, description)}
    /\ nextId' = nextId + 1
    /\ SetCall(s, Done([calls[s] EXCEPT !.g = nextId], "ok"))
    /\ UNCHANGED <<invites, bookmarkVars>>

\* -------------------------------------------------------------- delete
Delete(s, sc) ==
    /\ Free(s)
    /\ \E g \in sc.ids :
          LET c == Begin("delete", g, None)
          IN IF InvitesOfGathering(g) # {}
             THEN SetCall(s, Done(c, "NotAllowed"))
             ELSE SetCall(s, [c EXCEPT !.pc = "deleteOne"])
    /\ UNCHANGED <<gatherings, invites, nextId, bookmarkVars>>

DeleteRemove(s) ==
    /\ calls[s].op = "delete" /\ calls[s].pc = "deleteOne"
    /\ gatherings' = gatherings \ GatheringsById(calls[s].g)
    /\ SetCall(s, Done(calls[s], "ok"))
    /\ UNCHANGED <<invites, nextId, bookmarkVars>>

\* -------------------------------------------------------------- cancel
\* JSON.parse of the text `{ $set: { "canceled" : true } }` throws a
\* SyntaxError (the key $set is not a quoted string), so the call ends
\* before sanitizeUpdate and updateOne.
JSONParseSetUpdate == "SyntaxError"

Cancel(s, sc) ==
    /\ Free(s)
    /\ \E g \in sc.ids :
          LET c == Begin("cancel", g, None)
          IN IF ~GatheringExists(g) THEN SetCall(s, Done(c, "NotFound"))
             ELSE IF Truthy(TheGathering(g).canceled)
                  THEN SetCall(s, Done(c, "GatheringAlreadyCanceled"))
                  ELSE SetCall(s, Done(c, JSONParseSetUpdate))
    /\ UNCHANGED <<gatherings, invites, nextId, bookmarkVars>>

\* -------------------------------------------------------------- update
allowedUpdates_WithCreator ==
    {"title", "description", "canceled", "acceptors", "posts", "creator"}

allowedUpdates == {"title", "description", "canceled", "acceptors", "posts"}
DocKeys == allowedUpdates \cup {"hosts", "creator"}

sanitizeUpdate_HostsAllowed(update) ==
    \A key \in update.keys : key \in allowedUpdates \cup {"hosts"}

\* src sanitizeUpdate: every key of the update is in the allow-list
sanitizeUpdate(update) == \A key \in update.keys : key \in allowedUpdates

\* The update payloads of a scope: at most MaxUpdateKeys of the scope's keys,
\* with a value for each key present (a key absent from the payload keeps the
\* placeholder below, which MergeDoc never reads).  A payload that names
\* hosts carries the empty array.
PayloadsFor(K, titles) ==
    {[keys |-> K, title |-> t, description |-> d, canceled |-> c,
      acceptors |-> a, posts |-> p, hosts |-> h, creator |-> cr] :
        t \in IF "title" \in K THEN titles ELSE {0},
        d \in IF "description" \in K THEN Descriptions ELSE {""},
        c \in IF "canceled" \in K THEN {Defined(TRUE), Defined(FALSE)} ELSE {Undefined},
        a \in IF "acceptors" \in K THEN {Defined(A) : A \in SUBSET Users} ELSE {Undefined},
        p \in IF "posts" \in K THEN {Defined(P) : P \in SUBSET Posts} ELSE {Undefined},
        h \in {{}},
        cr \in IF "creator" \in K THEN Users ELSE {None}}

UpdateInputs(sc) ==
    UNION {PayloadsFor(K, sc.titles) :
              K \in {K2 \in SUBSET sc.keys : Cardinality(K2) <= MaxUpdateKeys}}

Update(s, sc) ==
    /\ Free(s)
    /\ \E g \in sc.ids, update \in UpdateInputs(sc) :
          LET c == [Begin("update", g, None) EXCEPT !.keys = update.keys]
          IN IF sanitizeUpdate(update)
             THEN /\ gatherings' = UpdateOne(gatherings, g, update)
                  /\ SetCall(s, Done(c, "ok"))
             ELSE /\ gatherings' = gatherings
                  /\ SetCall(s, Done(c, "NotAllowed"))
    /\ UNCHANGED <<invites, nextId, bookmarkVars>>

\* ------------------------------------------------------------ addHosts
AddHosts(s, sc) ==
    /\ Free(s)
    /\ \E g \in sc.ids, users \in SUBSET Users :
          LET c == Begin("addHosts", g, None)
          IN IF ~GatheringExists(g) THEN SetCall(s, Done(c, "NotFound"))
             ELSE IF \E user \in users : hasItem(user, TheGathering(g).hosts)
                  THEN SetCall(s, Done(c, "GatheringHostAlreadyExists"))
                  ELSE SetCall(s, Done(c, JSONParseSetUpdate))
    /\ UNCHANGED <<gatherings, invites, nextId, bookmarkVars>>

\* ------------------------------------------- addAcceptor / removeAcceptors
\* addAcceptor up to its updateOne: the error thrown, or "go".
addAcceptorRead(g, user) ==
    IF ~GatheringExists(g) THEN "NotFound"
    ELSE LET gathering == TheGathering(g)
         IN IF IsDefined(gathering.acceptors)
               /\ hasItem(user, ValueOf(gathering.acceptors))
            THEN "AlreadyAcceptedInvite"
            ELSE "go"

addAcceptorUpdate_Empty(user) == [keys |-> {"acceptors"}, acceptors |-> Defined({})]

\* newAcceptors = [user]; the value of newAcceptors.concat(gathering.acceptors)
\* is discarded, so the update carries the new member alone.
addAcceptorUpdate(user) == [keys |-> {"acceptors"}, acceptors |-> Defined({user})]

removeAcceptorsRead(g, user) ==
    IF ~GatheringExists(g) THEN "NotFound"
    ELSE LET gathering == TheGathering(g)
         IN IF IsDefined(gathering.acceptors)
               /\ ~hasItem(user, ValueOf(gathering.acceptors))
            THEN "InviteNotAccepted"
            ELSE "go"

\* newAcceptors = []; the value of newAcceptors.concat(userFilteredOut) is
\* discarded, so the update carries the empty array.
removeAcceptorsUpdate(user) == [keys |-> {"acceptors"}, acceptors |-> Defined({})]

AddAcceptor(s, sc) ==
    /\ Free(s)
    /\ \E g \in sc.ids, user \in Users :
          LET c == Begin("addAcceptor", g, user)
              r == addAcceptorRead(g, user)
          IN IF r = "go" THEN SetCall(s, [c EXCEPT !.pc = "updateOne"])
             ELSE SetCall(s, Done(c, r))
    /\ UNCHANGED <<gatherings, invites, nextId, bookmarkVars>>

AddAcceptorWrite(s) ==
    /\ calls[s].op = "addAcceptor" /\ calls[s].pc = "updateOne"
    /\ gatherings' = UpdateOne(gatherings, calls[s].g, addAcceptorUpdate(calls[s].u))
    /\ SetCall(s, Done(calls[s], "ok"))
    /\ UNCHANGED <<invites, nextId, bookmarkVars>>

RemoveAcceptors(s, sc) ==
    /\ Free(s)
    /\ \E g \in sc.ids, user \in Users :
          LET c == Begin("removeAcceptors", g, user)
              r == removeAcceptorsRead(g, user)
          IN IF r = "go" THEN SetCall(s, [c EXCEPT !.pc = "updateOne"])
             ELSE SetCall(s, Done(c, r))
    /\ UNCHANGED <<gatherings, invites, nextId, bookmarkVars>>

RemoveAcceptorsWrite(s) ==
    /\ calls[s].op = "removeAcceptors" /\ calls[s].pc = "updateOne"
    /\ gatherings' = UpdateOne(gatherings, calls[s].g, removeAcceptorsUpdate(calls[s].u))
    /\ SetCall(s, Done(calls[s], "ok"))
    /\ UNCHANGED <<invites, nextId, bookmarkVars>>

\* --------------------------------------------------------------- invite
canInvite_PendingOnly(to, g) ==
    ~ \E i \in InvitesFor(g, to) : i.status = "pending"

\* src canInvite: readOne({ gathering, to }) finds no document of any status
canInvite(to, g) == InvitesFor(g, to) = {}

\* src isHost, as a predicate: the gathering exists and user is in its hosts
IsHostOf(user, g) == GatheringExists(g) /\ hasItem(user, TheGathering(g).hosts)

\* invite, first await: canInvite.  In a scope with hostsInvite the caller
\* is a host of the gathering, as the routes sendInvite and updateGathering
\* require (isHost) before they call invite.
Invite(s, sc) ==
    /\ Free(s)
    /\ \E from \in Users, to \in Users, g \in sc.ids :
          /\ sc.hostsInvite => IsHostOf(from, g)
          /\ LET c == [Begin("invite", g, to) EXCEPT !.from = from]
             IN IF canInvite(to, g)
                THEN SetCall(s, [c EXCEPT !.pc = "createOne"])
                ELSE SetCall(s, Done(c, "InviteAlreadyExists"))
    /\ UNCHANGED <<gatherings, invites, nextId, bookmarkVars>>

\* createOne({ gathering, from, to, status: "pending" }), then the read-back
InviteInsert(s) ==
    /\ calls[s].op = "invite" /\ calls[s].pc = "createOne"
    /\ invites' = InsertInvite(invites,
                      InviteDoc(calls[s].g, calls[s].from, calls[s].u, "pending"))
    /\ SetCall(s, Done(calls[s], "ok"))
    /\ UNCHANGED <<gatherings, nextId, bookmarkVars>>

\* --------------------------------------------------------- acceptInvite
\* readOne({ to, gathering }) and the two status guards; a filter that
\* matches several documents returns any one of them.
AcceptInvite(s, sc) ==
    /\ Free(s)
    /\ \E to \in Users, g \in sc.ids :
          LET c == Begin("acceptInvite", g, to)
          IN IF InvitesFor(g, to) = {}
             THEN SetCall(s, Done(c, "NotInvited"))
             ELSE \E invite \in InvitesFor(g, to) :
                     IF invite.status = "accepted"
                     THEN SetCall(s, Done(c, "AlreadyAcceptedInvite"))
                     ELSE SetCall(s, [c EXCEPT !.pc = "popOne", !.from = invite.from,
                                               !.status = invite.status])
    /\ UNCHANGED <<gatherings, invites, nextId, bookmarkVars>>

AcceptPop_InsertsAnyway(s) ==
    /\ calls[s].op = "acceptInvite" /\ calls[s].pc = "popOne"
    /\ LET c == calls[s]
           M == InvitesFromTo(c.from, c.u, c.g)
       IN /\ \/ M = {} /\ invites' = invites
             \/ \E invite \in M : invites' = RemoveInvite(invites, invite)
          /\ SetCall(s, [Done(c, "ok") EXCEPT !.pendCreate = "accepted",
                                             !.pendAdd = "readOne"])
    /\ UNCHANGED <<gatherings, nextId, bookmarkVars>>

\* removeInvite: popOne({ from, to, gathering }).  On success the call
\* dispatches createOne(accepted) and addAcceptor without awaiting them
\* (`void`) and returns "Accepted invite!".
AcceptPop(s) ==
    /\ calls[s].op = "acceptInvite" /\ calls[s].pc = "popOne"
    /\ LET c == calls[s]
           M == InvitesFromTo(c.from, c.u, c.g)
       IN IF M = {}
          THEN /\ invites' = invites
               /\ SetCall(s, Done(c, "NotInvited"))
          ELSE \E invite \in M :
                  /\ invites' = RemoveInvite(invites, invite)
                  /\ SetCall(s, [Done(c, "ok") EXCEPT !.pendCreate = "accepted",
                                                     !.pendAdd = "readOne"])
    /\ UNCHANGED <<gatherings, nextId, bookmarkVars>>

DetachedCreate_FromRecipient(s) ==
    /\ calls[s].pendCreate # ""
    /\ invites' = InsertInvite(invites,
                      InviteDoc(calls[s].g, calls[s].u, calls[s].u, calls[s].pendCreate))
    /\ SetCall(s, [calls[s] EXCEPT !.pendCreate = ""])
    /\ UNCHANGED <<gatherings, nextId, bookmarkVars>>

\* the un-awaited createOne({ from, to, gathering, status }) reaches the store
DetachedCreate(s) ==
    /\ calls[s].pendCreate # ""
    /\ invites' = InsertInvite(invites,
                      InviteDoc(calls[s].g, calls[s].from, calls[s].u, calls[s].pendCreate))
    /\ SetCall(s, [calls[s] EXCEPT !.pendCreate = ""])
    /\ UNCHANGED <<gatherings, nextId, bookmarkVars>>

DetachedAddRead_AbortsCreate(s) ==
    /\ calls[s].pendAdd = "readOne"
    /\ IF addAcceptorRead(calls[s].g, calls[s].u) = "go"
       THEN SetCall(s, [calls[s] EXCEPT !.pendAdd = "updateOne"])
       ELSE SetCall(s, [calls[s] EXCEPT !.pendAdd = "none", !.pendCreate = ""])
    /\ UNCHANGED <<gatherings, invites, nextId, bookmarkVars>>

\* the un-awaited addAcceptor: its readOne and guards; a rejection has no
\* handler and is dropped
DetachedAddRead(s) ==
    /\ calls[s].pendAdd = "readOne"
    /\ IF addAcceptorRead(calls[s].g, calls[s].u) = "go"
       THEN SetCall(s, [calls[s] EXCEPT !.pendAdd = "updateOne"])
       ELSE SetCall(s, [calls[s] EXCEPT !.pendAdd = "none"])
    /\ UNCHANGED <<gatherings, invites, nextId, bookmarkVars>>

\* the un-awaited addAcceptor: its updateOne
DetachedAddWrite(s) ==
    /\ calls[s].pendAdd = "updateOne"
    /\ gatherings' = UpdateOne(gatherings, calls[s].g, addAcceptorUpdate(calls[s].u))
    /\ SetCall(s, [calls[s] EXCEPT !.pendAdd = "none"])
    /\ UNCHANGED <<invites, nextId, bookmarkVars>>

\* -------------------------------------------------------- declineInvite
DeclineInvite_NoDeclinedGuard(s, sc) ==
    /\ Free(s)
    /\ \E to \in Users, g \in sc.ids :
          LET c == Begin("declineInvite", g, to)
          IN IF InvitesFor(g, to) = {}
             THEN SetCall(s, Done(c, "NotInvited"))
             ELSE \E invite \in InvitesFor(g, to) :
                     IF invite.status = "accepted"
                     THEN SetCall(s, [c EXCEPT !.pc = "removeAcceptors.readOne",
                                               !.from = invite.from,
                                               !.status = invite.status])
                     ELSE SetCall(s, [c EXCEPT !.pc = "popOne", !.from = invite.from,
                                               !.status = invite.status])
    /\ UNCHANGED <<gatherings, invites, nextId, bookmarkVars>>

\* readOne({ to, gathering }) and the guards on its status
DeclineInvite(s, sc) ==
    /\ Free(s)
    /\ \E to \in Users, g \in sc.ids :
          LET c == Begin("declineInvite", g, to)
          IN IF InvitesFor(g, to) = {}
             THEN SetCall(s, Done(c, "NotInvited"))
             ELSE \E invite \in InvitesFor(g, to) :
                     IF invite.status = "declined"
                     THEN SetCall(s, Done(c, "AlreadyDeclinedInvite"))
                     ELSE IF invite.status = "accepted"
                          THEN SetCall(s, [c EXCEPT !.pc = "removeAcceptors.readOne",
                                                    !.from = invite.from,
                                                    !.status = invite.status])
                          ELSE SetCall(s, [c EXCEPT !.pc = "popOne", !.from = invite.from,
                                                    !.status = invite.status])
    /\ UNCHANGED <<gatherings, invites, nextId, bookmarkVars>>

\* await removeAcceptors(gathering, to): its readOne and guards
DeclineRemoveRead(s) ==
    /\ calls[s].op = "declineInvite" /\ calls[s].pc = "removeAcceptors.readOne"
    /\ LET r == removeAcceptorsRead(calls[s].g, calls[s].u)
       IN IF r = "go"
          THEN SetCall(s, [calls[s] EXCEPT !.pc = "removeAcceptors.updateOne"])
          ELSE SetCall(s, Done(calls[s], r))
    /\ UNCHANGED <<gatherings, invites, nextId, bookmarkVars>>

\* await removeAcceptors(gathering, to): its updateOne
DeclineRemoveWrite(s) ==
    /\ calls[s].op = "declineInvite" /\ calls[s].pc = "removeAcceptors.updateOne"
    /\ gatherings' = UpdateOne(gatherings, calls[s].g, removeAcceptorsUpdate(calls[s].u))
    /\ SetCall(s, [calls[s] EXCEPT !.pc = "popOne"])
    /\ UNCHANGED <<invites, nextId, bookmarkVars>>

\* removeInvite, then the un-awaited createOne(declined)
DeclinePop(s) ==
    /\ calls[s].op = "declineInvite" /\ calls[s].pc = "popOne"
    /\ LET c == calls[s]
           M == InvitesFromTo(c.from, c.u, c.g)
       IN IF M = {}
          THEN /\ invites' = invites
               /\ SetCall(s, Done(c, "NotInvited"))
          ELSE \E invite \in M :
                  /\ invites' = RemoveInvite(invites, invite)
                  /\ SetCall(s, [Done(c, "ok") EXCEPT !.pendCreate = "declined"])
    /\ UNCHANGED <<gatherings, nextId, bookmarkVars>>

\* ------------------------------------- isHost / isInvited / isAcceptor / canView
\* Each check returns "ok" or the name of the error it throws.
isHost_ExistsOnly(user, g) == IF ~GatheringExists(g) THEN "NotFound" ELSE "ok"

isHost(user, g) ==
    IF ~GatheringExists(g) THEN "NotFound"
    ELSE IF ~hasItem(user, TheGathering(g).hosts) THEN "GatheringHostNotMatch"
         ELSE "ok"

isInvited_Always(user, g) == "ok"

\* src isInvited: readOne({ gathering: _id, to: user }), any status
isInvited(user, g) == IF InvitesFor(g, user) = {} THEN "NotInvited" ELSE "ok"

acceptorGuard_UnsetPasses(user, acceptors) ==
    IF IsDefined(acceptors) /\ ~hasItem(user, ValueOf(acceptors))
    THEN "PendingInvite"
    ELSE "ok"

\* the last guard of isAcceptor, on the acceptors field it read before isInvited
acceptorGuard(user, acceptors) ==
    IF ~IsDefined(acceptors) \/ ~hasItem(user, ValueOf(acceptors))
    THEN "PendingInvite"
    ELSE "ok"

\* isAcceptor run with no step of another call between its reads
isAcceptor(user, g) ==
    IF ~GatheringExists(g) THEN "NotFound"
    ELSE IF isInvited(user, g) # "ok" THEN isInvited(user, g)
         ELSE acceptorGuard(user, TheGathering(g).acceptors)

\* canView run with no step of another call between its reads.  The catch
\* clause `catch (GatheringHostNotMatchError)` binds whatever isHost threw,
\* NotFoundError included, and goes on to isAcceptor.
canView(user, g) == IF isHost(user, g) = "ok" THEN "ok" ELSE isAcceptor(user, g)

\* canView, first await: isHost's readOne
CanView(s, sc) ==
    /\ Free(s)
    /\ \E user \in Users, g \in sc.ids :
          LET c == Begin("canView", g, user)
          IN IF isHost(user, g) = "ok"
             THEN SetCall(s, Done(c, "ok"))
             ELSE SetCall(s, [c EXCEPT !.pc = "isAcceptor.readOne"])
    /\ UNCHANGED <<gatherings, invites, nextId, bookmarkVars>>

\* isAcceptor's readOne of the gathering; the call keeps the acceptors it read
CanViewIsAcceptor(s) ==
    /\ calls[s].op = "canView" /\ calls[s].pc = "isAcceptor.readOne"
    /\ IF ~GatheringExists(calls[s].g)
       THEN SetCall(s, Done(calls[s], "NotFound"))
       ELSE SetCall(s, [calls[s] EXCEPT !.pc = "isInvited.readOne",
                                        !.seen = TheGathering(calls[s].g).acceptors])
    /\ UNCHANGED <<gatherings, invites, nextId, bookmarkVars>>

\* isInvited's readOne of the invites, then the guard on the acceptors read
CanViewIsInvited(s) ==
    /\ calls[s].op = "canView" /\ calls[s].pc = "isInvited.readOne"
    /\ LET c == [calls[s] EXCEPT !.seen = Undefined]
           r == isInvited(c.u, c.g)
       IN IF r # "ok"
          THEN SetCall(s, Done(c, r))
          ELSE SetCall(s, Done(c, acceptorGuard(c.u, calls[s].seen)))
    /\ UNCHANGED <<gatherings, invites, nextId, bookmarkVars>>

\* --------------------------------------------------- addPost / removePost
AddPost(s, sc) ==
    /\ Free(s)
    /\ \E g \in sc.ids, post \in Posts :
          LET c == Begin("addPost", g, None)
          IN IF ~GatheringExists(g) THEN SetCall(s, Done(c, "NotFound"))
             ELSE IF IsDefined(TheGathering(g).posts)
                     /\ hasItem(post, ValueOf(TheGathering(g).posts))
                  THEN SetCall(s, Done(c, "GatheringAlreadyHasPost"))
                  ELSE SetCall(s, Done(c, JSONParseSetUpdate))
    /\ UNCHANGED <<gatherings, invites, nextId, bookmarkVars>>

RemovePost(s, sc) ==
    /\ Free(s)
    /\ \E g \in sc.ids, post \in Posts :
          LET c == Begin("removePost", g, None)
          IN IF ~GatheringExists(g) THEN SetCall(s, Done(c, "NotFound"))
             ELSE IF IsDefined(TheGathering(g).posts)
                     /\ ~hasItem(post, ValueOf(TheGathering(g).posts))
                  THEN SetCall(s, Done(c, "PostNotAddedToGathering"))
                  ELSE SetCall(s, Done(c, JSONParseSetUpdate))
    /\ UNCHANGED <<gatherings, invites, nextId, bookmarkVars>>

\* isHost called on its own: one readOne
IsHost(s, sc) ==
    /\ Free(s)
    /\ \E user \in Users, g \in sc.ids :
          SetCall(s, Done(Begin("isHost", g, user), isHost(user, g)))
    /\ UNCHANGED <<gatherings, invites, nextId, bookmarkVars>>

\* isInvited called on its own: one readOne
IsInvited(s, sc) ==
    /\ Free(s)
    /\ \E user \in Users, g \in sc.ids :
          SetCall(s, Done(Begin("isInvited", g, user), isInvited(user, g)))
    /\ UNCHANGED <<gatherings, invites, nextId, bookmarkVars>>

\* isAcceptor called on its own, first await: readOne of the gathering
IsAcceptor(s, sc) ==
    /\ Free(s)
    /\ \E user \in Users, g \in sc.ids :
          LET c == Begin("isAcceptor", g, user)
          IN IF ~GatheringExists(g)
             THEN SetCall(s, Done(c, "NotFound"))
             ELSE SetCall(s, [c EXCEPT !.pc = "isInvited.readOne",
                                       !.seen = TheGathering(g).acceptors])
    /\ UNCHANGED <<gatherings, invites, nextId, bookmarkVars>>

\* isAcceptor, second await: isInvited, then the guard on the acceptors read
IsAcceptorIsInvited(s) ==
    /\ calls[s].op = "isAcceptor" /\ calls[s].pc = "isInvited.readOne"
    /\ LET c == [calls[s] EXCEPT !.seen = Undefined]
           r == isInvited(c.u, c.g)
       IN IF r # "ok"
          THEN SetCall(s, Done(c, r))
          ELSE SetCall(s, Done(c, acceptorGuard(c.u, calls[s].seen)))
    /\ UNCHANGED <<gatherings, invites, nextId, bookmarkVars>>

\* ------------------------------------------------------------- routes
\* Routes.sendInvite: `user` is the session's user.  First await of the
\* concept: Gathering.isHost(user, gathering).
SendInvite(s, sc) ==
    /\ Free(s)
    /\ \E user \in Users, to \in Users, g \in sc.ids :
          LET c == [Begin("sendInvite", g, to) EXCEPT !.from = user]
              r == isHost(user, g)
          IN IF r = "ok"
             THEN SetCall(s, [c EXCEPT !.pc = "canInvite.readOne"])
             ELSE SetCall(s, Done(c, r))
    /\ UNCHANGED <<gatherings, invites, nextId, bookmarkVars>>

\* Routes.updateGathering: isHost(user, _id); `invitee` is optional (None
\* when the request names nobody).
UpdateGathering(s, sc) ==
    /\ Free(s)
    /\ \E user \in Users, invitee \in Users \cup {None}, g \in sc.ids,
          update \in UpdateInputs(sc) :
          LET c == [Begin("updateGathering", g, invitee)
                       EXCEPT !.from = user, !.keys = update.keys,
                              !.update = Defined(update)]
              r == isHost(user, g)
          IN IF r # "ok" THEN SetCall(s, Done(c, r))
             ELSE IF invitee # None
                  THEN SetCall(s, [c EXCEPT !.pc = "canInvite.readOne"])
                  ELSE SetCall(s, [c EXCEPT !.pc = "update"])
    /\ UNCHANGED <<gatherings, invites, nextId, bookmarkVars>>

\* Gathering.invite(user, to, gathering) called by a route: canInvite
RouteCanInvite(s) ==
    /\ calls[s].op \in {"sendInvite", "updateGathering"}
    /\ calls[s].pc = "canInvite.readOne"
    /\ IF canInvite(calls[s].u, calls[s].g)
       THEN SetCall(s, [calls[s] EXCEPT !.pc = "createOne"])
       ELSE SetCall(s, Done(calls[s], "InviteAlreadyExists"))
    /\ UNCHANGED <<gatherings, invites, nextId, bookmarkVars>>

\* Gathering.invite called by a route: createOne(pending) and the read-back;
\* sendInvite then returns, updateGathering goes on to Gathering.update
RouteInviteInsert(s) ==
    /\ calls[s].op \in {"sendInvite", "updateGathering"}
    /\ calls[s].pc = "createOne"
    /\ invites' = InsertInvite(invites,
                      InviteDoc(calls[s].g, calls[s].from, calls[s].u, "pending"))
    /\ IF calls[s].op = "sendInvite"
       THEN SetCall(s, Done(calls[s], "ok"))
       ELSE SetCall(s, [calls[s] EXCEPT !.pc = "update"])
    /\ UNCHANGED <<gatherings, nextId, bookmarkVars>>

\* Routes.updateGathering, last await: Gathering.update(_id, update)
UpdateGatheringUpdate(s) ==
    /\ calls[s].op = "updateGathering" /\ calls[s].pc = "update"
    /\ LET update == ValueOf(calls[s].update)
       IN IF sanitizeUpdate(update)
          THEN /\ gatherings' = UpdateOne(gatherings, calls[s].g, update)
               /\ SetCall(s, Done(calls[s], "ok"))
          ELSE /\ gatherings' = gatherings
               /\ SetCall(s, Done(calls[s], "NotAllowed"))
    /\ UNCHANGED <<invites, nextId, bookmarkVars>>

\* ------------------------------------------------------------ bookmarks
\* src/server/concepts/bookmark.ts.  A name is any string, the empty one
\* included; a destination is a string that `new URL` accepts or rejects.
Names == {"", "a"}
Destinations == {"https://a.example/", "nowhere"}
BookmarkIds == 1..MaxBookmarks

BookmarkDoc(id, user, name, destination) ==
    [_id |-> id, user |-> user, name |-> name, destination |-> destination]

\* isValidDestination: `new URL(destination)` throws a TypeError on a string
\* that is no URL
isValidDestination(destination) == destination = "https://a.example/"

\* isAvailableName: readOne({ user, name }) finds nothing
isAvailableName(user, name) ==
    ~ \E b \in bookmarks : b.user = user /\ b.name = name

bookmarkAllowedUpdates == {"name", "destination"}

\* BookmarkConcept.sanitizeUpdate: every key of the update is allowed
bookmarkSanitizeUpdate(update) == \A key \in update.keys : key \in bookmarkAllowedUpdates

\* `if (update.name)`: the key is present and its string is not empty
nameGiven(update) == "name" \in update.keys /\ update.name # ""

\* Partial<BookmarkDoc> payloads: any of the keys name, destination and user,
\* with a value for each key present (an absent key keeps a placeholder that
\* MergeDoc never reads).
BookmarkUpdates ==
    {[keys |-> K, name |-> n, destination |-> d, user |-> u] :
        K \in SUBSET {"name", "destination", "user"},
        n \in Names, d \in Destinations, u \in Users} \cap
    {q \in [keys : SUBSET {"name", "destination", "user"}, name : Names,
            destination : Destinations, user : Users] :
        /\ "name" \notin q.keys => q.name = ""
        /\ "destination" \notin q.keys => q.destination = "nowhere"
        /\ "user" \notin q.keys => q.user = 1}

\* create, first await: isAvailableName, then isValidDestination
BookmarkCreate(s) ==
    /\ Free(s)
    /\ \E user \in Users, name \in Names, destination \in Destinations :
          LET c == [Begin("bookmark.create", None, user) EXCEPT
                       !.update = Defined(BookmarkDoc(None, user, name, destination))]
          IN IF ~isAvailableName(user, name)
             THEN SetCall(s, Done(c, "BookmarkNameAlreadyInUse"))
             ELSE IF ~isValidDestination(destination)
                  THEN SetCall(s, Done(c, "TypeError"))
                  ELSE /\ nextBookmark \in BookmarkIds
                       /\ SetCall(s, [c EXCEPT !.pc = "createOne"])
    /\ UNCHANGED <<gatherings, invites, nextId, bookmarkVars>>

\* create, second await: createOne({ user, name, destination }); the
\* read-back changes nothing
BookmarkCreateInsert(s) ==
    /\ calls[s].op = "bookmark.create" /\ calls[s].pc = "createOne"
    /\ LET doc == ValueOf(calls[s].update)
       IN bookmarks' = bookmarks \cup
              {BookmarkDoc(nextBookmark, doc.user, doc.name, doc.destination)}
    /\ nextBookmark' = nextBookmark + 1
    /\ SetCall(s, Done([calls[s] EXCEPT !.g = nextBookmark], "ok"))
    /\ UNCHANGED <<gatherings, invites, nextId>>

\* delete: deleteOne({ _id }); no matching document is not an error
BookmarkDelete(s) ==
    /\ Free(s)
    /\ \E id \in BookmarkIds :
          /\ bookmarks' = {b \in bookmarks : b._id # id}
          /\ SetCall(s, Done(Begin("bookmark.delete", id, None), "ok"))
    /\ UNCHANGED <<gatherings, invites, nextId, nextBookmark>>

\* update, first await: readOne({ _id }), then sanitizeUpdate and the test
\* of update.name
BookmarkUpdate(s) ==
    /\ Free(s)
    /\ \E id \in BookmarkIds, update \in BookmarkUpdates :
          LET found == {b \in bookmarks : b._id = id}
              c == [Begin("bookmark.update", id, None) EXCEPT
                       !.keys = update.keys, !.update = Defined(update)]
          IN IF found = {} THEN SetCall(s, Done(c, "NotFound"))
             ELSE IF ~bookmarkSanitizeUpdate(update)
                  THEN SetCall(s, Done(c, "NotAllowed"))
                  ELSE \E bookmark \in found :
                          SetCall(s, [c EXCEPT
                              !.u = bookmark.user,
                              !.pc = IF nameGiven(update)
                                     THEN "isAvailableName.readOne"
                                     ELSE "updateOne"])
    /\ UNCHANGED <<gatherings, invites, nextId, bookmarkVars>>

\* update, second await: isAvailableName(bookmark.user, update.name)
BookmarkUpdateName(s) ==
    /\ calls[s].op = "bookmark.update" /\ calls[s].pc = "isAvailableName.readOne"
    /\ IF isAvailableName(calls[s].u, ValueOf(calls[s].update).name)
       THEN SetCall(s, [calls[s] EXCEPT !.pc = "updateOne"])
       ELSE SetCall(s, Done(calls[s], "BookmarkNameAlreadyInUse"))
    /\ UNCHANGED <<gatherings, invites, nextId, bookmarkVars>>

\* update, last await: updateOne({ _id }, update)
BookmarkUpdateWrite(s) ==
    /\ calls[s].op = "bookmark.update" /\ calls[s].pc = "updateOne"
    /\ bookmarks' = UpdateOne(bookmarks, calls[s].g, ValueOf(calls[s].update))
    /\ SetCall(s, Done(calls[s], "ok"))
    /\ UNCHANGED <<gatherings, invites, nextId, nextBookmark>>

\* SpecBookmarks: create, update and delete of bookmarks, one call at a
\* time.
NextBookmarks ==
    \/ \E s \in Slots : BookmarkCreate(s)
    \/ \E s \in Slots : BookmarkCreateInsert(s)
    \/ \E s \in Slots : BookmarkDelete(s)
    \/ \E s \in Slots : BookmarkUpdate(s)
    \/ \E s \in Slots : BookmarkUpdateName(s)
    \/ \E s \in Slots : BookmarkUpdateWrite(s)

\* ------------------------------------------------------- specifications
InitSlots(n) ==
    /\ gatherings = {}
    /\ invites = EmptyBag
    /\ nextId = 1
    /\ bookmarks = {}
    /\ nextBookmark = 1
    /\ calls = [s \in 1..n |-> IdleCall]

SpecBookmarks == InitSlots(1) /\ [][NextBookmarks]_vars

\* Spec: the gathering collection.  One caller, one call at a time, any
\* number of gatherings up to MaxGatherings; updates of title, hosts and
\* creator.
GatheringScope ==
    [ids |-> AllGatherings, titles |-> Titles,
     keys |-> {"title", "hosts", "creator"}, hostsInvite |-> TRUE]

Next ==
    \/ \E s \in Slots : Create(s, GatheringScope)
    \/ \E s \in Slots : CreateInsert(s)
    \/ \E s \in Slots : Delete(s, GatheringScope)
    \/ \E s \in Slots : DeleteRemove(s)
    \/ \E s \in Slots : Cancel(s, GatheringScope)
    \/ \E s \in Slots : Update(s, GatheringScope)
    \/ \E s \in Slots : AddHosts(s, GatheringScope)
    \/ \E s \in Slots : AddPost(s, GatheringScope)
    \/ \E s \in Slots : RemovePost(s, GatheringScope)

Spec == InitSlots(1) /\ [][Next]_vars

\* SpecInvites: every operation of the concept on one gathering, one call at
\* a time, each call starting after the previous one has returned and the
\* writes it dispatched have landed; updates of acceptors, hosts and creator.
InviteScope ==
    [ids |-> OneGathering, titles |-> OneTitle,
     keys |-> {"acceptors", "hosts", "creator"}, hostsInvite |-> TRUE]

NextInvites ==
    \/ \E s \in Slots : Create(s, InviteScope)
    \/ \E s \in Slots : Delete(s, InviteScope)
    \/ \E s \in Slots : Cancel(s, InviteScope)
    \/ \E s \in Slots : Update(s, InviteScope)
    \/ \E s \in Slots : AddHosts(s, InviteScope)
    \/ \E s \in Slots : AddAcceptor(s, InviteScope)
    \/ \E s \in Slots : RemoveAcceptors(s, InviteScope)
    \/ \E s \in Slots : Invite(s, InviteScope)
    \/ \E s \in Slots : AcceptInvite(s, InviteScope)
    \/ \E s \in Slots : DeclineInvite(s, InviteScope)
    \/ \E s \in Slots : AddPost(s, InviteScope)
    \/ \E s \in Slots : RemovePost(s, InviteScope)
    \/ \E s \in Slots : CanView(s, InviteScope)
    \/ \E s \in Slots : CreateInsert(s)
    \/ \E s \in Slots : DeleteRemove(s)
    \/ \E s \in Slots : AddAcceptorWrite(s)
    \/ \E s \in Slots : RemoveAcceptorsWrite(s)
    \/ \E s \in Slots : InviteInsert(s)
    \/ \E s \in Slots : AcceptPop(s)
    \/ \E s \in Slots : DeclineRemoveRead(s)
    \/ \E s \in Slots : DeclineRemoveWrite(s)
    \/ \E s \in Slots : DeclinePop(s)
    \/ \E s \in Slots : DetachedCreate(s)
    \/ \E s \in Slots : DetachedAddRead(s)
    \/ \E s \in Slots : DetachedAddWrite(s)
    \/ \E s \in Slots : CanViewIsAcceptor(s)
    \/ \E s \in Slots : CanViewIsInvited(s)

SpecInvites == InitSlots(1) /\ [][NextInvites]_vars

\* The invite workflow alone on one gathering: create, invite, acceptInvite,
\* declineInvite and the writes they dispatch.
NextWorkflow ==
    \/ \E s \in Slots : Create(s, InviteScope)
    \/ \E s \in Slots : CreateInsert(s)
    \/ \E s \in Slots : Invite(s, InviteScope)
    \/ \E s \in Slots : InviteInsert(s)
    \/ \E s \in Slots : AcceptInvite(s, InviteScope)
    \/ \E s \in Slots : AcceptPop(s)
    \/ \E s \in Slots : DeclineInvite(s, InviteScope)
    \/ \E s \in Slots : DeclineRemoveRead(s)
    \/ \E s \in Slots : DeclineRemoveWrite(s)
    \/ \E s \in Slots : DeclinePop(s)
    \/ \E s \in Slots : DetachedCreate(s)
    \/ \E s \in Slots : DetachedAddRead(s)
    \/ \E s \in Slots : DetachedAddWrite(s)

\* SpecWorkflow: one call of the workflow at a time.
SpecWorkflow == InitSlots(1) /\ [][NextWorkflow]_vars

\* SpecConcurrent: up to MaxCalls calls of the workflow in flight, their
\* store steps interleaved.
SpecConcurrent == InitSlots(MaxCalls) /\ [][NextWorkflow]_vars

\* The event loop runs every dispatched continuation: an un-awaited write
\* that is pending is eventually carried out.  New calls arrive or not.
FairWrites ==
    \A s \in 1..1 :
        /\ WF_vars(DetachedCreate(s))
        /\ WF_vars(DetachedAddRead(s))
        /\ WF_vars(DetachedAddWrite(s))

\* The operations that write the store on one gathering: those of
\* NextInvites without the ones that always throw (cancel, addHosts, addPost,
\* removePost) and without the read-only canView.
PendingScope ==
    [ids |-> OneGathering, titles |-> OneTitle,
     keys |-> {"acceptors", "hosts"}, hostsInvite |-> TRUE]

NextPending ==
    \/ \E s \in Slots : Create(s, PendingScope)
    \/ \E s \in Slots : CreateInsert(s)
    \/ \E s \in Slots : Delete(s, PendingScope)
    \/ \E s \in Slots : DeleteRemove(s)
    \/ \E s \in Slots : Update(s, PendingScope)
    \/ \E s \in Slots : AddAcceptor(s, PendingScope)
    \/ \E s \in Slots : AddAcceptorWrite(s)
    \/ \E s \in Slots : RemoveAcceptors(s, PendingScope)
    \/ \E s \in Slots : RemoveAcceptorsWrite(s)
    \/ \E s \in Slots : Invite(s, PendingScope)
    \/ \E s \in Slots : InviteInsert(s)
    \/ \E s \in Slots : AcceptInvite(s, PendingScope)
    \/ \E s \in Slots : AcceptPop(s)
    \/ \E s \in Slots : DeclineInvite(s, PendingScope)
    \/ \E s \in Slots : DeclineRemoveRead(s)
    \/ \E s \in Slots : DeclineRemoveWrite(s)
    \/ \E s \in Slots : DeclinePop(s)
    \/ \E s \in Slots : DetachedCreate(s)
    \/ \E s \in Slots : DetachedAddRead(s)
    \/ \E s \in Slots : DetachedAddWrite(s)

\* SpecInvitesFair: the store-writing operations on one gathering, one call
\* at a time, with the pending writes scheduled fairly.
SpecInvitesFair == InitSlots(1) /\ [][NextPending]_vars /\ FairWrites

\* SpecFrame: the workflow, one call at a time, on the first of up to
\* MaxGatherings gatherings, each created under the one title by a
\* different user.
FrameScope ==
    [ids |-> AllGatherings, titles |-> OneTitle, keys |-> {}, hostsInvite |-> TRUE]

NextFrame ==
    \/ \E s \in Slots : Create(s, FrameScope)
    \/ \E s \in Slots : CreateInsert(s)
    \/ \E s \in Slots : Invite(s, InviteScope)
    \/ \E s \in Slots : InviteInsert(s)
    \/ \E s \in Slots : AcceptInvite(s, InviteScope)
    \/ \E s \in Slots : AcceptPop(s)
    \/ \E s \in Slots : DeclineInvite(s, InviteScope)
    \/ \E s \in Slots : DeclineRemoveRead(s)
    \/ \E s \in Slots : DeclineRemoveWrite(s)
    \/ \E s \in Slots : DeclinePop(s)
    \/ \E s \in Slots : DetachedCreate(s)
    \/ \E s \in Slots : DetachedAddRead(s)
    \/ \E s \in Slots : DetachedAddWrite(s)

SpecFrame == InitSlots(1) /\ [][NextFrame]_vars

\* The store after create(host, title) and invite(host, to, gathering) have
\* completed: one gathering and one pending Invite document.
InitPending(n) ==
    /\ \E host \in Users, to \in Users :
          /\ gatherings = {GatheringDoc(1, host, 1, "d")}
          /\ invites = SetToBag({InviteDoc(1, host, to, "pending")})
    /\ nextId = 2
    /\ bookmarks = {}
    /\ nextBookmark = 1
    /\ calls = [s \in 1..n |-> IdleCall]

\* slot s has not been used yet
Unused(s) == calls[s].op = "idle"

\* Each client issues one invite, acceptInvite or declineInvite; the calls
\* overlap in any way.
NextRace ==
    \/ \E s \in Slots : Unused(s) /\ Invite(s, InviteScope)
    \/ \E s \in Slots : InviteInsert(s)
    \/ \E s \in Slots : Unused(s) /\ AcceptInvite(s, InviteScope)
    \/ \E s \in Slots : AcceptPop(s)
    \/ \E s \in Slots : Unused(s) /\ DeclineInvite(s, InviteScope)
    \/ \E s \in Slots : DeclineRemoveRead(s)
    \/ \E s \in Slots : DeclineRemoveWrite(s)
    \/ \E s \in Slots : DeclinePop(s)
    \/ \E s \in Slots : DetachedCreate(s)
    \/ \E s \in Slots : DetachedAddRead(s)
    \/ \E s \in Slots : DetachedAddWrite(s)

\* SpecRace: one invite/acceptInvite/declineInvite per client, MaxCalls
\* clients, on a gathering with one pending record.
SpecRace == InitPending(MaxCalls) /\ [][NextRace]_vars

\* SpecDeleteRace: the workflow together with delete, up to MaxCalls calls in
\* flight on one gathering.
NextDeleteRace ==
    \/ \E s \in Slots : Create(s, InviteScope)
    \/ \E s \in Slots : CreateInsert(s)
    \/ \E s \in Slots : Invite(s, InviteScope)
    \/ \E s \in Slots : InviteInsert(s)
    \/ \E s \in Slots : AcceptInvite(s, InviteScope)
    \/ \E s \in Slots : AcceptPop(s)
    \/ \E s \in Slots : DeclineInvite(s, InviteScope)
    \/ \E s \in Slots : DeclineRemoveRead(s)
    \/ \E s \in Slots : DeclineRemoveWrite(s)
    \/ \E s \in Slots : DeclinePop(s)
    \/ \E s \in Slots : DetachedCreate(s)
    \/ \E s \in Slots : DetachedAddRead(s)
    \/ \E s \in Slots : DetachedAddWrite(s)
    \/ \E s \in Slots : Delete(s, InviteScope)
    \/ \E s \in Slots : DeleteRemove(s)

SpecDeleteRace == InitSlots(MaxCalls) /\ [][NextDeleteRace]_vars

\* SpecCancel: cancellation.  One caller, one call at a time; create, cancel,
\* delete and updates of canceled and title.
CancelScope ==
    [ids |-> AllGatherings, titles |-> Titles,
     keys |-> {"canceled", "title"}, hostsInvite |-> TRUE]

NextCancel ==
    \/ \E s \in Slots : Create(s, CancelScope)
    \/ \E s \in Slots : CreateInsert(s)
    \/ \E s \in Slots : Cancel(s, CancelScope)
    \/ \E s \in Slots : Update(s, CancelScope)
    \/ \E s \in Slots : Delete(s, CancelScope)
    \/ \E s \in Slots : DeleteRemove(s)

SpecCancel == InitSlots(1) /\ [][NextCancel]_vars

\* SpecRoutes: the routes that create invites, with the accept/decline
\* workflow, one request at a time on one gathering; update payloads over
\* canceled and hosts.
RouteScope ==
    [ids |-> OneGathering, titles |-> OneTitle,
     keys |-> {"canceled", "hosts"}, hostsInvite |-> TRUE]

NextRoutes ==
    \/ \E s \in Slots : Create(s, RouteScope)
    \/ \E s \in Slots : CreateInsert(s)
    \/ \E s \in Slots : SendInvite(s, RouteScope)
    \/ \E s \in Slots : UpdateGathering(s, RouteScope)
    \/ \E s \in Slots : RouteCanInvite(s)
    \/ \E s \in Slots : RouteInviteInsert(s)
    \/ \E s \in Slots : UpdateGatheringUpdate(s)
    \/ \E s \in Slots : AcceptInvite(s, RouteScope)
    \/ \E s \in Slots : AcceptPop(s)
    \/ \E s \in Slots : DeclineInvite(s, RouteScope)
    \/ \E s \in Slots : DeclineRemoveRead(s)
    \/ \E s \in Slots : DeclineRemoveWrite(s)
    \/ \E s \in Slots : DeclinePop(s)
    \/ \E s \in Slots : DetachedCreate(s)
    \/ \E s \in Slots : DetachedAddRead(s)
    \/ \E s \in Slots : DetachedAddWrite(s)

SpecRoutes == InitSlots(1) /\ [][NextRoutes]_vars

\* SpecChecks: the three membership checks among the invite workflow and
\* updates of acceptors, one call at a time on one gathering.
ChecksScope ==
    [ids |-> OneGathering, titles |-> OneTitle,
     keys |-> {"acceptors"}, hostsInvite |-> TRUE]

NextChecks ==
    \/ \E s \in Slots : Create(s, ChecksScope)
    \/ \E s \in Slots : CreateInsert(s)
    \/ \E s \in Slots : Update(s, ChecksScope)
    \/ \E s \in Slots : Invite(s, ChecksScope)
    \/ \E s \in Slots : InviteInsert(s)
    \/ \E s \in Slots : AcceptInvite(s, ChecksScope)
    \/ \E s \in Slots : AcceptPop(s)
    \/ \E s \in Slots : DeclineInvite(s, ChecksScope)
    \/ \E s \in Slots : DeclineRemoveRead(s)
    \/ \E s \in Slots : DeclineRemoveWrite(s)
    \/ \E s \in Slots : DeclinePop(s)
    \/ \E s \in Slots : DetachedCreate(s)
    \/ \E s \in Slots : DetachedAddRead(s)
    \/ \E s \in Slots : DetachedAddWrite(s)
    \/ \E s \in Slots : IsHost(s, ChecksScope)
    \/ \E s \in Slots : IsInvited(s, ChecksScope)
    \/ \E s \in Slots : IsAcceptor(s, ChecksScope)
    \/ \E s \in Slots : IsAcceptorIsInvited(s)

SpecChecks == InitSlots(1) /\ [][NextChecks]_vars

\* =============================================================== claims
AcceptorsOf(d) == IF IsDefined(d.acceptors) THEN ValueOf(d.acceptors) ELSE {}
HasStatus(g, to, status) == \E i \in InvitesFor(g, to) : i.status = status
\* slot s takes a new call of operation op in this step
Starts(s, op) == Free(s) /\ calls'[s] # calls[s] /\ calls'[s].op = op
\* the call in slot s has returned result res and its dispatched writes landed
Returned(s, op, res) ==
    calls[s].op = op /\ calls[s].pc = "done" /\ calls[s].res = res /\ Finished(calls[s])

\* C1: in every reachable state, whatever sequence of create, update, cancel,
\* addHosts, addAcceptor, removeAcceptors, addPost, removePost, invite,
\* acceptInvite, declineInvite and delete calls led to it, every stored
\* gathering has its creator among its hosts.
C1_CreatorIsHost == \A d \in gatherings : d.creator \in d.hosts

\* C1 witness: a gathering is stored after an update naming hosts was issued.
C1_Witness ==
    /\ gatherings # {}
    /\ \E s \in Slots : calls[s].op = "update" /\ calls[s].pc = "done"
                        /\ "hosts" \in calls[s].keys

\* C2: for every (gathering, to) pair at most one Invite document is stored,
\* in every state of every interleaving of invite, acceptInvite, declineInvite.
C2_AtMostOneInvitePerPair ==
    \A g \in AllGatherings, to \in Users : CountFor(g, to) <= 1

\* C3: for every (gathering, to) pair at most one Invite document with status
\* pending is stored, also while two invite calls for the pair are in flight.
C3_AtMostOnePendingPerPair ==
    \A g \in AllGatherings, to \in Users : CountStatus(g, to, {"pending"}) <= 1

\* C4: with no call in flight, after any sequence of completed invite,
\* acceptInvite and declineInvite calls, a user is in gathering.acceptors
\* exactly when the Invite document of the pair has status accepted.
C4_AcceptorsIffAccepted ==
    Quiescent =>
        \A d \in gatherings, to \in Users :
            (to \in AcceptorsOf(d)) <=> HasStatus(d._id, to, "accepted")

\* C5: with no call in flight, after any sequence of public operations
\* (update with an acceptors field included), every member of
\* gathering.acceptors has an Invite document with status accepted.
C5_AcceptorsHoldAcceptedInvite ==
    Quiescent =>
        \A d \in gatherings : \A to \in AcceptorsOf(d) : HasStatus(d._id, to, "accepted")

\* C6: no two distinct gatherings have the same (creator, title) pair.
C6_UniqueCreatorTitle ==
    \A d1 \in gatherings, d2 \in gatherings :
        (d1.creator = d2.creator /\ d1.title = d2.title) => d1._id = d2._id

\* C7: create fails with GatheringNameAlreadyInUse and leaves the collection
\* unchanged when a gathering with the same (creator, title) exists; with no
\* such gathering (also when another creator owns the title) it goes on to
\* store a gathering with hosts = {creator} and returns success.
C7_CreateUniqueness ==
    [][\A s \in Slots :
          /\ Starts(s, "create") =>
                IF \E d \in gatherings : d.creator = calls'[s].u /\ d.title = calls'[s].title
                THEN /\ calls'[s].pc = "done"
                     /\ calls'[s].res = "GatheringNameAlreadyInUse"
                     /\ gatherings' = gatherings
                ELSE calls'[s].pc = "createOne"
          /\ (calls[s].op = "create" /\ calls[s].pc = "createOne" /\ calls'[s] # calls[s]) =>
                /\ calls'[s].pc = "done" /\ calls'[s].res = "ok"
                /\ \E d \in gatherings' :
                      /\ d.creator = calls[s].u /\ d.title = calls[s].title
                      /\ d.hosts = {calls[s].u}
                      /\ gatherings' = gatherings \cup {d}
                      /\ d \notin gatherings
      ]_vars

\* C7 witness: a create has just been rejected for a name conflict while two
\* stored gatherings of different creators carry one title.
C7_Witness ==
    /\ \E s \in Slots : Returned(s, "create", "GatheringNameAlreadyInUse")
    /\ \E d1 \in gatherings, d2 \in gatherings :
          d1.title = d2.title /\ d1.creator # d2.creator /\ d1.hosts = {d1.creator}

\* C8: once an acceptInvite of an invited user has returned success and its
\* writes have landed, the user is in gathering.acceptors; an acceptInvite
\* issued while the pair's document is accepted fails with
\* AlreadyAcceptedInvite and changes neither invites nor gatherings.
C8_AcceptThenAcceptAgain ==
    [][\A s \in Slots :
          /\ (calls'[s].op = "acceptInvite" /\ calls'[s].res = "ok"
              /\ ~Finished(calls[s]) /\ Finished(calls'[s])) =>
                \E d \in gatherings' : d._id = calls'[s].g /\ calls'[s].u \in AcceptorsOf(d)
          /\ (Starts(s, "acceptInvite")
              /\ HasStatus(calls'[s].g, calls'[s].u, "accepted")) =>
                /\ calls'[s].pc = "done" /\ calls'[s].res = "AlreadyAcceptedInvite"
                /\ invites' = invites /\ gatherings' = gatherings
      ]_vars

\* C8 witness: a second acceptInvite was rejected while the user is an
\* acceptor holding an accepted invite.
C8_Witness ==
    \E s \in Slots :
        /\ Returned(s, "acceptInvite", "AlreadyAcceptedInvite")
        /\ HasStatus(calls[s].g, calls[s].u, "accepted")
        /\ \E d \in gatherings : d._id = calls[s].g /\ calls[s].u \in AcceptorsOf(d)

\* C9: after a completed declineInvite(to, gathering), whatever other users
\* accepted or declined before, no Invite document of the pair has status
\* accepted and `to` is not in gathering.acceptors.
C9_DeclineLeavesNoAccepted ==
    \A s \in Slots :
        (calls[s].op = "declineInvite" /\ calls[s].pc = "done" /\ Finished(calls[s])) =>
            /\ ~HasStatus(calls[s].g, calls[s].u, "accepted")
            /\ \A d \in gatherings : d._id = calls[s].g => calls[s].u \notin AcceptorsOf(d)

C11_ViewFallthrough ==
    \A d \in gatherings, user \in Users :
        LET g == d._id
            host == user \in d.hosts
        IN /\ (host /\ InvitesFor(g, user) = {}) => canView(user, g) = "ok"
           /\ (~host /\ HasStatus(g, user, "accepted")) => canView(user, g) = "ok"
           /\ (~host /\ InvitesFor(g, user) = {}) => canView(user, g) = "NotInvited"
           /\ (~host /\ InvitesFor(g, user) # {} /\ user \notin AcceptorsOf(d)
                 /\ ~HasStatus(g, user, "accepted"))
                 => canView(user, g) = "PendingInvite"

\* C12: a canView that has returned for an existing gathering succeeded
\* exactly when the user is a host, or the pair has an Invite document and
\* the user is an acceptor; a failure carries isAcceptor's error (NotInvited
\* without a document, PendingInvite with one), never the host mismatch.
C12_CanViewExactly ==
    \A s \in Slots :
        (calls[s].op = "canView" /\ calls[s].pc = "done" /\ GatheringExists(calls[s].g)) =>
            LET d == TheGathering(calls[s].g)
                user == calls[s].u
                invited == \E i \in InviteSet : i.gathering = d._id /\ i.to = user
            IN /\ (calls[s].res = "ok") <=>
                      (user \in d.hosts \/ (invited /\ user \in AcceptorsOf(d)))
               /\ calls[s].res # "ok" =>
                      calls[s].res = IF invited THEN "PendingInvite" ELSE "NotInvited"
               /\ calls[s].res # "GatheringHostNotMatch"

\* C12 witness: canView let in a user who is no host, through an Invite
\* document and membership in acceptors.
C12_Witness ==
    \E s \in Slots :
        /\ Returned(s, "canView", "ok")
        /\ \E d \in gatherings :
              /\ d._id = calls[s].g /\ calls[s].u \notin d.hosts
              /\ calls[s].u \in AcceptorsOf(d)
              /\ InvitesFor(d._id, calls[s].u) # {}

\* C13: delete of a gathering with no Invite document goes on to remove the
\* gathering and returns success; delete of a gathering with an Invite
\* document of any status fails with NotAllowed (the integrity violation)
\* and leaves gatherings and invites as they were.
C13_DeleteGate ==
    [][\A s \in Slots :
          /\ (Starts(s, "delete") /\ GatheringExists(calls'[s].g)) =>
                IF \E i \in InviteSet : i.gathering = calls'[s].g
                THEN /\ calls'[s].pc = "done" /\ calls'[s].res = "NotAllowed"
                     /\ gatherings' = gatherings /\ invites' = invites
                ELSE calls'[s].pc = "deleteOne" /\ gatherings' = gatherings
          /\ (calls[s].op = "delete" /\ calls[s].pc = "deleteOne" /\ calls'[s] # calls[s]) =>
                /\ calls'[s].pc = "done" /\ calls'[s].res = "ok"
                /\ gatherings' = {d \in gatherings : d._id # calls[s].g}
                /\ invites' = invites
      ]_vars

\* C13 witness: a delete was refused while the gathering is stored and the
\* only Invite document that references it is a declined one.
C13_Witness ==
    \E s \in Slots :
        /\ Returned(s, "delete", "NotAllowed")
        /\ GatheringExists(calls[s].g)
        /\ \E i \in InviteSet : i.gathering = calls[s].g
        /\ \A i \in InviteSet : i.gathering = calls[s].g => i.status = "declined"

\* C14: in every state of every interleaving of delete with invite,
\* acceptInvite and declineInvite, each stored Invite document references a
\* stored gathering.
C14_InvitesReferenceGatherings ==
    \A i \in InviteSet : \E d \in gatherings : d._id = i.gathering

\* C15: a cancel that has returned for a stored gathering either succeeded,
\* having found the gathering not canceled, or failed with
\* GatheringAlreadyCanceled; in both cases the gathering is canceled
\* afterwards.
C15_CancelSetsCanceled ==
    \A s \in Slots :
        (calls[s].op = "cancel" /\ calls[s].pc = "done" /\ GatheringExists(calls[s].g)) =>
            /\ calls[s].res \in {"ok", "GatheringAlreadyCanceled"}
            /\ Truthy(TheGathering(calls[s].g).canceled)

\* C16: canceled is monotonic: a gathering that is canceled in a state is
\* canceled in the next state, whatever operation takes the step, as long
\* as it is stored.
C16_CanceledMonotonic ==
    [][\A d \in gatherings : \A e \in gatherings' :
          (d._id = e._id /\ Truthy(d.canceled)) => Truthy(e.canceled)
      ]_vars

\* C17: an update whose payload has a key outside title, description,
\* canceled, acceptors, posts fails with NotAllowed and leaves the gatherings
\* as they were; no update changes the creator or the hosts of a gathering.
C17_UpdateAllowList ==
    [][\A s \in Slots :
          Starts(s, "update") =>
              /\ (calls'[s].keys \ {"title", "description", "canceled", "acceptors", "posts"} # {})
                    => /\ calls'[s].pc = "done" /\ calls'[s].res = "NotAllowed"
                       /\ gatherings' = gatherings
              /\ \A d \in gatherings :
                    \E e \in gatherings' :
                        e._id = d._id /\ e.creator = d.creator /\ e.hosts = d.hosts
      ]_vars

\* C17 witness: an update naming title together with hosts was refused on a
\* stored gathering.
C17_Witness ==
    \E s \in Slots :
        /\ Returned(s, "update", "NotAllowed")
        /\ calls[s].keys = {"title", "hosts"}
        /\ GatheringExists(calls[s].g)

\* the call has changed a collection and has not finished: it has popped the
\* Invite document (its un-awaited writes are outstanding), or it is a
\* declineInvite of an accepted invite past removeAcceptors' updateOne
Mutated(c) ==
    \/ c.pendCreate # "" \/ c.pendAdd # "none"
    \/ c.op = "declineInvite" /\ c.pc = "popOne" /\ c.status = "accepted"

\* in this step the call in slot s ends in an error: it throws, or the
\* addAcceptor it dispatched is rejected
EndsInError(s) ==
    \/ calls'[s] # calls[s] /\ calls'[s].pc = "done" /\ calls'[s].res # "ok"
    \/ calls[s].pendAdd = "readOne" /\ calls'[s].pendAdd = "none"

\* C18: whenever a call ends in an error, in its first step or in a later
\* one, it has changed neither collection: the step that raises the error
\* writes nothing and the call has made no write before it.
C18_ErrorsBeforeAnyMutation ==
    [][\A s \in Slots :
          EndsInError(s) =>
              /\ ~Mutated(calls[s])
              /\ gatherings' = gatherings /\ invites' = invites
      ]_vars

\* C19: in the step in which acceptInvite or declineInvite returns success,
\* the Invite document with the new status is stored for the pair and, for
\* acceptInvite, `to` is in the acceptors of the gathering.
C19_SuccessAfterBothWrites ==
    [][\A s \in Slots :
          (/\ calls[s].op \in {"acceptInvite", "declineInvite"}
           /\ calls[s].pc # "done"
           /\ calls'[s].pc = "done" /\ calls'[s].res = "ok") =>
              LET c == calls'[s]
                  status == IF c.op = "acceptInvite" THEN "accepted" ELSE "declined"
              IN /\ \E i \in BagToSet(invites') :
                        i.gathering = c.g /\ i.to = c.u /\ i.status = status
                 /\ c.op = "acceptInvite" =>
                        \E d \in gatherings' : d._id = c.g /\ c.u \in AcceptorsOf(d)
      ]_vars

\* C20: whenever an acceptInvite or declineInvite has popped the Invite
\* document of a pair and its replacement is not yet stored, a later state
\* has a document of the new status for the pair, whether the dispatched
\* addAcceptor goes through or is rejected.
C20_PopLeadsToRecord ==
    \A g \in OneGathering, to \in Users, status \in {"accepted", "declined"} :
        (\E s \in Slots : /\ calls[s].pendCreate = status
                          /\ calls[s].g = g /\ calls[s].u = to)
            ~> HasStatus(g, to, status)

\* C20 witness: an acceptInvite has popped the document, its replacement is
\* stored, and its addAcceptor is about to be rejected because the user is
\* an acceptor already.
C20_Witness ==
    \E s \in Slots :
        /\ calls[s].op = "acceptInvite" /\ calls[s].res = "ok"
        /\ calls[s].pendCreate = "" /\ calls[s].pendAdd = "readOne"
        /\ addAcceptorRead(calls[s].g, calls[s].u) = "AlreadyAcceptedInvite"
        /\ HasStatus(calls[s].g, calls[s].u, "accepted")

\* C21: every addAcceptor write, issued directly or dispatched by
\* acceptInvite, leaves acceptors equal to the previous set united with the
\* user: nobody who was an acceptor is dropped.
C21_AddAcceptorIsUnion ==
    [][\A s \in Slots :
          (\/ /\ calls[s].op = "addAcceptor" /\ calls[s].pc = "updateOne"
              /\ calls'[s].pc = "done"
           \/ calls[s].pendAdd = "updateOne" /\ calls'[s].pendAdd = "none") =>
              \A d \in gatherings :
                  d._id = calls[s].g =>
                      \E e \in gatherings' :
                          /\ e._id = d._id
                          /\ AcceptorsOf(e) = AcceptorsOf(d) \cup {calls[s].u}
      ]_vars

\* C22: a removeAcceptors for a user who is not in acceptors fails with
\* InviteNotAccepted and changes nothing; otherwise its write removes that
\* user alone and keeps every other acceptor.
C22_RemoveAcceptorsExact ==
    [][\A s \in Slots :
          /\ (Starts(s, "removeAcceptors") /\ GatheringExists(calls'[s].g)
              /\ calls'[s].u \notin AcceptorsOf(TheGathering(calls'[s].g))) =>
                /\ calls'[s].pc = "done" /\ calls'[s].res = "InviteNotAccepted"
                /\ gatherings' = gatherings /\ invites' = invites
          /\ (calls[s].op = "removeAcceptors" /\ calls[s].pc = "updateOne"
              /\ calls'[s].pc = "done") =>
                \A d \in gatherings :
                    d._id = calls[s].g =>
                        \E e \in gatherings' :
                            /\ e._id = d._id
                            /\ AcceptorsOf(e) = AcceptorsOf(d) \ {calls[s].u}
      ]_vars

\* C23: an addHosts that has returned for a stored gathering either failed
\* with GatheringHostAlreadyExists, one of the users being a host, or
\* succeeded; it ends in no other way.
C23_AddHostsOutcome ==
    \A s \in Slots :
        (calls[s].op = "addHosts" /\ calls[s].pc = "done" /\ GatheringExists(calls[s].g)) =>
            calls[s].res \in {"ok", "GatheringHostAlreadyExists"}

\* C24: an addPost or removePost that has returned for a stored gathering
\* either succeeded or failed with its duplicate/absent error
\* (GatheringAlreadyHasPost, PostNotAddedToGathering); it ends in no other
\* way.
C24_PostOutcome ==
    \A s \in Slots :
        (calls[s].op \in {"addPost", "removePost"} /\ calls[s].pc = "done"
         /\ GatheringExists(calls[s].g)) =>
            calls[s].res \in {"ok", IF calls[s].op = "addPost"
                                    THEN "GatheringAlreadyHasPost"
                                    ELSE "PostNotAddedToGathering"}

\* C25: every stored Invite document of a stored gathering has a `from`
\* that is a host of that gathering, and a sendInvite or updateGathering
\* request of a caller who is no host ends at the isHost check and stores
\* no Invite.
C25_InvitesComeFromHosts ==
    /\ \A i \in InviteSet :
          \A d \in gatherings : d._id = i.gathering => i.from \in d.hosts
    /\ \A s \in Slots :
          (/\ calls[s].op \in {"sendInvite", "updateGathering"}
           /\ \E d \in gatherings : d._id = calls[s].g /\ calls[s].from \notin d.hosts)
              => /\ calls[s].pc = "done" /\ calls[s].res = "GatheringHostNotMatch"
                 /\ \A i \in InviteSet : i.from # calls[s].from

\* C25 witness: a request to invite made by a user who is no host was
\* refused while an Invite sent by the host is stored.
C25_Witness ==
    \E s \in Slots :
        /\ calls[s].op \in {"sendInvite", "updateGathering"}
        /\ calls[s].pc = "done" /\ calls[s].res = "GatheringHostNotMatch"
        /\ calls[s].u # None
        /\ \E i \in InviteSet : i.gathering = calls[s].g /\ i.from # calls[s].from

\* C26: the pop of a successful acceptInvite or declineInvite removes one
\* Invite document of the pair and nothing else, and once the call's writes
\* have landed (no other call in flight) the pair has exactly one document:
\* it has the new status and the gathering, to and from of the one removed.
C26_TransitionReplacesRecord ==
    [][\A s \in Slots :
          calls'[s].op \in {"acceptInvite", "declineInvite"} =>
              LET c == calls'[s]
                  status == IF c.op = "acceptInvite" THEN "accepted" ELSE "declined"
              IN /\ (calls[s].pc = "popOne" /\ c.pc = "done" /\ c.res = "ok") =>
                        \E old \in InviteSet :
                            /\ old.gathering = c.g /\ old.to = c.u /\ old.from = c.from
                            /\ old.status # status
                            /\ invites' = invites (-) SetToBag({old})
                 /\ (c.res = "ok" /\ ~Finished(calls[s]) /\ Finished(c)) =>
                        /\ {i \in BagToSet(invites') : i.gathering = c.g /\ i.to = c.u}
                             = {InviteDoc(c.g, c.from, c.u, status)}
                        /\ CopiesIn(InviteDoc(c.g, c.from, c.u, status), invites') = 1
      ]_vars

\* C26 witness: a declineInvite of an accepted invite has completed and the
\* pair's only document is the declined one from the original sender.
C26_Witness ==
    \E s \in Slots :
        /\ Returned(s, "declineInvite", "ok")
        /\ \E d \in gatherings : d._id = calls[s].g /\ d.acceptors = Defined({})
        /\ InvitesFor(calls[s].g, calls[s].u)
             = {InviteDoc(calls[s].g, calls[s].from, calls[s].u, "declined")}
        /\ CountFor(calls[s].g, calls[s].u) = 1
        /\ calls[s].from # calls[s].u

\* C27: an acceptInvite or declineInvite for a pair without an Invite
\* document fails with NotInvited, and a declineInvite for a pair whose
\* document is declined fails with AlreadyDeclinedInvite; in each case
\* invites and gatherings (acceptors included) stay as they were.
C27_TransitionGuards ==
    [][\A s \in Slots :
          /\ ((Starts(s, "acceptInvite") \/ Starts(s, "declineInvite"))
              /\ ~ \E i \in InviteSet : i.gathering = calls'[s].g /\ i.to = calls'[s].u) =>
                /\ calls'[s].pc = "done" /\ calls'[s].res = "NotInvited"
                /\ invites' = invites /\ gatherings' = gatherings
          /\ (Starts(s, "declineInvite")
              /\ \E i \in InviteSet : /\ i.gathering = calls'[s].g /\ i.to = calls'[s].u
                                     /\ i.status = "declined") =>
                /\ calls'[s].pc = "done" /\ calls'[s].res = "AlreadyDeclinedInvite"
                /\ invites' = invites /\ gatherings' = gatherings
      ]_vars

\* C27 witness: a declineInvite was refused for a pair whose document is
\* declined, after the user had accepted and declined.
C27_Witness ==
    \E s \in Slots :
        /\ Returned(s, "declineInvite", "AlreadyDeclinedInvite")
        /\ InvitesFor(calls[s].g, calls[s].u) # {}
        /\ \A i \in InvitesFor(calls[s].g, calls[s].u) : i.status = "declined"
        /\ \E d \in gatherings : d._id = calls[s].g /\ IsDefined(d.acceptors)

\* C28: on a stored gathering isHost fails with GatheringHostNotMatch unless
\* the user is in hosts; isInvited fails with NotInvited unless the pair has
\* an Invite document of some status; isAcceptor fails with NotInvited
\* without a document and with PendingInvite with a document and the user
\* outside acceptors; no step of the three checks changes gatherings or
\* invites.
C28_MembershipChecks ==
    [][\A s \in Slots :
          (calls'[s] # calls[s] /\ calls'[s].op \in {"isHost", "isInvited", "isAcceptor"}) =>
              LET c == calls'[s]
                  invited == \E i \in InviteSet : i.gathering = c.g /\ i.to = c.u
              IN /\ gatherings' = gatherings /\ invites' = invites
                 /\ (c.pc = "done" /\ GatheringExists(c.g)) =>
                       LET d == TheGathering(c.g)
                       IN c.res =
                            CASE c.op = "isHost" ->
                                   IF c.u \in d.hosts THEN "ok" ELSE "GatheringHostNotMatch"
                              [] c.op = "isInvited" ->
                                   IF invited THEN "ok" ELSE "NotInvited"
                              [] c.op = "isAcceptor" ->
                                   IF ~invited THEN "NotInvited"
                                   ELSE IF c.u \notin AcceptorsOf(d) THEN "PendingInvite"
                                        ELSE "ok"
      ]_vars

\* C28 witness: isAcceptor has answered PendingInvite for a user whose
\* invite is declined.
C28_Witness ==
    \E s \in Slots :
        /\ Returned(s, "isAcceptor", "PendingInvite")
        /\ HasStatus(calls[s].g, calls[s].u, "declined")

\* the pair has left pending: it has a document that is accepted or
\* declined, or a call has popped its document and not yet stored the
\* replacement
LeftPending(g, to) ==
    \/ HasStatus(g, to, "accepted") \/ HasStatus(g, to, "declined")
    \/ \E s \in Slots : calls[s].pendCreate # "" /\ calls[s].g = g /\ calls[s].u = to

\* C29: an acceptInvite that read a declined document pops it, and when its
\* writes have landed the pair has an accepted document and `to` is an
\* acceptor; a pair that has left pending gets no pending document again.
C29_AcceptFromDeclined ==
    [][/\ \A s \in Slots :
             (calls[s].op = "acceptInvite" /\ calls[s].status = "declined"
              /\ calls'[s] # calls[s]) =>
                 /\ calls'[s].res = "ok"
                 /\ ~ \E i \in BagToSet(invites') :
                        /\ i.gathering = calls[s].g /\ i.to = calls[s].u
                        /\ i.status = "declined"
       /\ \A s \in Slots :
             (calls'[s].op = "acceptInvite" /\ calls'[s].res = "ok"
              /\ ~Finished(calls[s]) /\ Finished(calls'[s])) =>
                 /\ \E i \in BagToSet(invites') :
                        /\ i.gathering = calls'[s].g /\ i.to = calls'[s].u
                        /\ i.status = "accepted"
                 /\ \E d \in gatherings' :
                        d._id = calls'[s].g /\ calls'[s].u \in AcceptorsOf(d)
       /\ \A g \in OneGathering, to \in Users :
             (LeftPending(g, to) /\ ~HasStatus(g, to, "pending")) =>
                 ~ \E i \in BagToSet(invites') :
                        i.gathering = g /\ i.to = to /\ i.status = "pending"
      ]_vars

\* C30: no (gathering, to) pair gets stuck.  A declineInvite that read the
\* pair's record with status accepted or pending, and an acceptInvite that
\* read it with status declined or pending, ends with success, whatever the
\* other users of the gathering have accepted or declined.
C30_NeverStuck ==
    [][\A s \in Slots :
          (/\ calls'[s].pc = "done" /\ calls[s].pc # "done"
           /\ \/ calls[s].op = "declineInvite" /\ calls[s].status \in {"accepted", "pending"}
              \/ calls[s].op = "acceptInvite" /\ calls[s].status \in {"declined", "pending"})
          => calls'[s].res = "ok"
      ]_vars

\* C31: when one acceptInvite and one declineInvite of the same pair have run
\* concurrently from a pending record and all their writes are done, exactly
\* one record exists for the pair and `to` is in acceptors iff that record's
\* status is accepted.
C31_RaceEndsConsistent ==
    \A a \in Slots, b \in Slots :
        (/\ calls[a].op = "acceptInvite" /\ calls[b].op = "declineInvite"
         /\ calls[a].g = calls[b].g /\ calls[a].u = calls[b].u
         /\ (calls[a].res = "ok" \/ calls[b].res = "ok")
         /\ Quiescent) =>
            LET g == calls[a].g
                to == calls[a].u
            IN \A d \in gatherings :
                  d._id = g =>
                     /\ BagCardinality(invites) = 1
                     /\ InvitesFor(g, to) # {}
                     /\ to \in AcceptorsOf(d) <=> HasStatus(g, to, "accepted")

\* the stored Invite documents of a pair plus the createOne calls for the
\* pair that acceptInvite/declineInvite dispatched and that have not landed
PairLoad(inv, cs, g, to) ==
    BagCardinality([i \in {j \in BagToSet(inv) : j.gathering = g /\ j.to = to} |-> inv[i]])
    + Cardinality({s \in DOMAIN cs :
                      cs[s].pendCreate # "" /\ cs[s].g = g /\ cs[s].u = to})

\* C32: under any interleaving, the stored records of a pair plus the inserts
\* in flight for it grow only by one, in the step where an invite's createOne
\* lands; acceptInvite and declineInvite dispatch an insert only in the step
\* where their own popOne removed a record, and a call whose pop finds
\* nothing fails with NotInvited and inserts nothing.
C32_InsertsFollowPops ==
    [][/\ \A g \in OneGathering, to \in Users :
             PairLoad(invites', calls', g, to) > PairLoad(invites, calls, g, to) =>
                 /\ PairLoad(invites', calls', g, to) = PairLoad(invites, calls, g, to) + 1
                 /\ \E s \in Slots :
                       /\ calls[s].op = "invite" /\ calls[s].pc = "createOne"
                       /\ calls'[s].pc = "done" /\ calls[s].g = g /\ calls[s].u = to
       /\ \A s \in Slots :
             (calls[s].pc = "popOne" /\ calls'[s] # calls[s]) =>
                 IF InvitesFromTo(calls[s].from, calls[s].u, calls[s].g) = {}
                 THEN /\ calls'[s].res = "NotInvited" /\ calls'[s].pendCreate = ""
                      /\ invites' = invites
                 ELSE /\ calls'[s].res = "ok" /\ calls'[s].pendCreate # ""
                      /\ BagCardinality(invites') = BagCardinality(invites) - 1
      ]_vars

\* C32 witness: the pop of one call found nothing because a concurrent call
\* had popped the pair's record, whose replacement is still in flight.
C32_Witness ==
    \E a \in Slots, b \in Slots :
        /\ calls[a].res = "NotInvited" /\ calls[a].from # 0
        /\ calls[b].pendCreate # ""
        /\ calls[a].g = calls[b].g /\ calls[a].u = calls[b].u

\* routes.ts getGatherings: readMany({ $or: [{ hosts: { $in: [user] } },
\* { acceptors: { $in: [user] } }] }); a document without acceptors does not
\* match the second branch.
getGatherings(user) ==
    {d \in gatherings : user \in d.hosts \/ user \in AcceptorsOf(d)}

\* C33: listing and viewing agree.  With no call in flight, a gathering is in
\* the getGatherings listing of a user exactly when canView(user, gathering)
\* succeeds.
C33_ListingMatchesCanView ==
    Quiescent =>
        \A user \in Users, d \in gatherings :
            d \in getGatherings(user) <=> canView(user, d._id) = "ok"

\* C34: every store step of an invite, acceptInvite or declineInvite on
\* gathering G for user u leaves every other gathering document, every
\* Invite document of another (gathering, to) pair, and G's title,
\* description, creator, hosts, canceled and posts as they were.
C34_WorkflowFrame ==
    [][\A s \in Slots :
          (/\ calls'[s] # calls[s]
           /\ calls'[s].op \in {"invite", "acceptInvite", "declineInvite"}) =>
              LET g == calls'[s].g
                  u == calls'[s].u
              IN /\ \A d \in gatherings : d._id # g => d \in gatherings'
                 /\ {d._id : d \in gatherings'} = {d._id : d \in gatherings}
                 /\ \A d \in gatherings, e \in gatherings' :
                       (d._id = g /\ e._id = g) =>
                          /\ e.title = d.title /\ e.description = d.description
                          /\ e.creator = d.creator /\ e.hosts = d.hosts
                          /\ e.canceled = d.canceled /\ e.posts = d.posts
                 /\ \A i \in BagToSet(invites) \cup BagToSet(invites') :
                       (i.gathering # g \/ i.to # u) =>
                          CopiesIn(i, invites') = CopiesIn(i, invites)
      ]_vars

\* C34 witness: an acceptInvite has added its user to the acceptors of its
\* gathering while another gathering and another user's Invite document
\* exist.
C34_Witness ==
    \E s \in Slots :
        /\ Returned(s, "acceptInvite", "ok")
        /\ \E d \in gatherings : d._id = calls[s].g /\ calls[s].u \in AcceptorsOf(d)
        /\ \E e \in gatherings : e._id # calls[s].g
        /\ \E i \in InviteSet : i.gathering = calls[s].g /\ i.to # calls[s].u

\* C35: the updateGathering route is all-or-nothing.  A request that fails
\* writes nothing in the step where it fails, and a request that has stored
\* the invite of its invitee goes on to succeed, so that a failed request
\* leaves no new Invite document behind.
C35_UpdateGatheringAllOrNothing ==
    [][\A s \in Slots :
          (/\ calls'[s] # calls[s] /\ calls'[s].op = "updateGathering"
           /\ calls'[s].pc = "done") =>
              /\ calls'[s].res # "ok" => (gatherings' = gatherings /\ invites' = invites)
              /\ (calls[s].op = "updateGathering" /\ calls[s].pc = "update"
                  /\ calls[s].u # None) => calls'[s].res = "ok"
      ]_vars

\* C36: across completed Bookmark create, update and delete calls no two
\* bookmarks of one user have the same name, update never changes the user
\* of a bookmark, and an update whose name is the name of a bookmark of that
\* user (another one or the same) fails and changes nothing.
C36_BookmarkNamesUnique ==
    [][/\ \A a \in bookmarks', b \in bookmarks' :
             (a.user = b.user /\ a.name = b.name) => a = b
       /\ \A a \in bookmarks, b \in bookmarks' : a._id = b._id => a.user = b.user
       /\ \A s \in Slots :
             (/\ calls[s].op = "bookmark.update" /\ calls[s].pc # "done"
              /\ calls'[s] # calls[s]
              /\ "name" \in calls[s].keys
              /\ \E b \in bookmarks :
                    b.user = calls[s].u /\ b.name = ValueOf(calls[s].update).name) =>
                 /\ bookmarks' = bookmarks
                 /\ calls'[s].res # "ok"
      ]_vars

====
